---- MODULE Spec2Model ----
(***************************************************************************)
(* Data Quality Guardrails: the analysis functions of                      *)
(* backend/utils/stats_utils.py, the four-stage pipeline of                *)
(* backend/pipeline/graph.py and the /api/analyze handler of               *)
(* backend/main.py.                                                        *)
(*                                                                         *)
(* Representation.  A DataFrame is a sequence of columns                   *)
(* [name, dtype, values]; a cell is a string: the marker NaN for a missing *)
(* cell, otherwise the str() of the Python value the cell holds.  The      *)
(* cells "True" and "False" are always Python bools.  A float is a record  *)
(* [nan, num, den] (an exact rational, or IEEE NaN); None/Some(x) are the  *)
(* sequences <<>> and <<x>>; a dict is a function from its keys.           *)
(***************************************************************************)
EXTENDS Integers, Sequences, FiniteSets, TLC

VARIABLES
    astype_str_keeps_na,      \* pandas >= 3: Series.astype(str) keeps NaN; pandas < 3: it becomes "nan"
    bare_int_parses_as_date,  \* whether pd.to_datetime accepts a bare short integer such as "25"
    requests,                 \* /api/analyze: per request, the handler's locals and its position
    call                      \* a direct call of one analysis function: arguments, position, result

vars == <<astype_str_keeps_na, bare_int_parses_as_date, requests, call>>

-----------------------------------------------------------------------------
(* Python values *)

None == <<>>
Some(x) == <<x>>

EmptyDict == <<>>
Put(d, k, v) == (k :> v) @@ d
Get(d, k, default) == IF k \in DOMAIN d THEN d[k] ELSE default

Max(a, b) == IF a >= b THEN a ELSE b

Float(n, d) == [nan |-> FALSE, num |-> n, den |-> d]
NaNFloat == [nan |-> TRUE, num |-> 0, den |-> 1]
Zero == Float(0, 1)

\* IEEE comparisons: every comparison with NaN is false.  Denominators are > 0.
FloatGeq(a, b) == ~a.nan /\ ~b.nan /\ a.num * b.den >= b.num * a.den
FloatGt(a, b) == ~a.nan /\ ~b.nan /\ a.num * b.den > b.num * a.den
FloatLt(a, b) == ~a.nan /\ ~b.nan /\ a.num * b.den < b.num * a.den
FloatEq(a, b) == ~a.nan /\ ~b.nan /\ a.num * b.den = b.num * a.den
FloatSub(a, b) ==
    IF a.nan \/ b.nan THEN NaNFloat
    ELSE Float(a.num * b.den - b.num * a.den, a.den * b.den)

RECURSIVE Count(_)
Count(bools) ==
    IF bools = <<>> THEN 0
    ELSE (IF Head(bools) THEN 1 ELSE 0) + Count(Tail(bools))

\* float(mask.mean()) of a boolean Series: NaN for an empty Series.
Mean(bools) ==
    IF Len(bools) = 0 THEN NaNFloat ELSE Float(Count(bools), Len(bools))

-----------------------------------------------------------------------------
(* pandas: cells, dtypes, coercions *)

NaN == "NaN"

BoolValues == {"True", "False"}

\* The texts that parse as numbers, with their values.
NumVal ==
    [s \in {"0", "1", "25", "30", "40", "20200101"} |->
        CASE s = "0" -> 0
          [] s = "1" -> 1
          [] s = "25" -> 25
          [] s = "30" -> 30
          [] s = "40" -> 40
          [] s = "20200101" -> 20200101]

NumericTexts == DOMAIN NumVal

\* A bare short integer: dateutil reads it as a day or a two-digit year.
BareInts == {"0", "1", "25", "30", "40"}

\* The format pandas guesses from a text (year, month and day needed).
DateFormat(c) ==
    CASE c = "2020-01-01" -> "%Y-%m-%d"
      [] c = "2021-06-30" -> "%Y-%m-%d"
      [] c = "20200101" -> "%Y%m%d"
      [] OTHER -> "none"

Lower(s) ==
    CASE s = "True" -> "true"
      [] s = "False" -> "false"
      [] s = "TRUE" -> "true"
      [] s = "Yes" -> "yes"
      [] OTHER -> s

isna(c) == c = NaN
notna(c) == c # NaN

dropna(values) == SelectSeq(values, notna)

is_bool_dtype(series) == series.dtype = "bool"
is_numeric_dtype(series) == series.dtype \in {"bool", "int64", "float64"}

NumOf(c) == IF c = "True" THEN 1 ELSE IF c = "False" THEN 0 ELSE NumVal[c]

\* pd.to_numeric(values, errors="coerce"): Some(number), or None where it fails.
to_numeric(values) ==
    [i \in 1..Len(values) |->
        IF values[i] \in NumericTexts \cup BoolValues
        THEN Some(NumOf(values[i]))
        ELSE None]

\* pd.to_datetime(values, errors="coerce", utc=False) of an object Series: the
\* format is guessed from the first non-missing element and applied to all; when
\* none can be guessed each element is parsed on its own.
to_datetime(values) ==
    LET nn == dropna(values)
        fmt == IF nn = <<>> THEN "none" ELSE DateFormat(Head(nn))
        Parses(c) ==
            /\ notna(c)
            /\ IF fmt # "none" THEN DateFormat(c) = fmt
               ELSE \/ DateFormat(c) # "none"
                    \/ c \in BareInts /\ bare_int_parses_as_date
    IN  [i \in 1..Len(values) |-> IF Parses(values[i]) THEN Some(values[i]) ELSE None]

FloatRepr(c) == c \o ".0"

\* Series.astype(str)
astype_str(series) ==
    [i \in 1..Len(series.values) |->
        LET c == series.values[i]
        IN  IF isna(c) THEN (IF astype_str_keeps_na THEN NaN ELSE "nan")
            ELSE IF series.dtype = "float64" THEN FloatRepr(c)
            ELSE c]

str_lower(strs) == [i \in 1..Len(strs) |-> Lower(strs[i])]

columns(df) == [i \in 1..Len(df) |-> df[i].name]
len(df) == IF df = <<>> THEN 0 ELSE Len(df[1].values)
col(df, name) == df[CHOOSE i \in 1..Len(df) : df[i].name = name]

-----------------------------------------------------------------------------
(* backend/utils/stats_utils.py *)

Threshold == Float(9, 10)

bool_set == {"true", "false", "0", "1", "yes", "no"}

\* infer_column_type with every threshold at 0.7 instead of 0.9.
infer_column_type_lax(series) ==
    LET non_null == dropna(series.values)
        numeric_coerce == to_numeric(non_null)
        numeric_ratio == Mean([i \in 1..Len(non_null) |-> numeric_coerce[i] # None])
        datetime_coerce == to_datetime(non_null)
        datetime_ratio == Mean([i \in 1..Len(non_null) |-> datetime_coerce[i] # None])
        d2 == Put(Put(EmptyDict, "numeric_ratio", numeric_ratio),
                  "datetime_ratio", datetime_ratio)
        lowered == str_lower(astype_str([dtype |-> series.dtype, values |-> non_null]))
        bool_ratio == Mean([i \in 1..Len(lowered) |-> lowered[i] \in bool_set])
        d3 == Put(d2, "boolean_ratio", bool_ratio)
    IN  IF is_bool_dtype(series) THEN [type |-> "boolean", diagnostics |-> EmptyDict]
        ELSE IF is_numeric_dtype(series) THEN [type |-> "numeric", diagnostics |-> EmptyDict]
        ELSE IF non_null = <<>> THEN [type |-> "string", diagnostics |-> EmptyDict]
        ELSE IF FloatGeq(datetime_ratio, Float(7, 10)) THEN [type |-> "datetime", diagnostics |-> d2]
        ELSE IF FloatGeq(numeric_ratio, Float(7, 10)) THEN [type |-> "numeric", diagnostics |-> d2]
        ELSE IF FloatGeq(bool_ratio, Float(7, 10)) THEN [type |-> "boolean", diagnostics |-> d3]
        ELSE [type |-> "string", diagnostics |-> d3]

\* infer_column_type testing numeric_ratio before datetime_ratio.
infer_column_type_numeric_first(series) ==
    LET non_null == dropna(series.values)
        numeric_coerce == to_numeric(non_null)
        numeric_ratio == Mean([i \in 1..Len(non_null) |-> numeric_coerce[i] # None])
        datetime_coerce == to_datetime(non_null)
        datetime_ratio == Mean([i \in 1..Len(non_null) |-> datetime_coerce[i] # None])
        d2 == Put(Put(EmptyDict, "numeric_ratio", numeric_ratio),
                  "datetime_ratio", datetime_ratio)
        lowered == str_lower(astype_str([dtype |-> series.dtype, values |-> non_null]))
        bool_ratio == Mean([i \in 1..Len(lowered) |-> lowered[i] \in bool_set])
        d3 == Put(d2, "boolean_ratio", bool_ratio)
    IN  IF is_bool_dtype(series) THEN [type |-> "boolean", diagnostics |-> EmptyDict]
        ELSE IF is_numeric_dtype(series) THEN [type |-> "numeric", diagnostics |-> EmptyDict]
        ELSE IF non_null = <<>> THEN [type |-> "string", diagnostics |-> EmptyDict]
        ELSE IF FloatGeq(numeric_ratio, Threshold) THEN [type |-> "numeric", diagnostics |-> d2]
        ELSE IF FloatGeq(datetime_ratio, Threshold) THEN [type |-> "datetime", diagnostics |-> d2]
        ELSE IF FloatGeq(bool_ratio, Threshold) THEN [type |-> "boolean", diagnostics |-> d3]
        ELSE [type |-> "string", diagnostics |-> d3]

\* Returns the label and the diagnostics dict (the ratios computed on the way).
infer_column_type(series) ==
    LET non_null == dropna(series.values)
        numeric_coerce == to_numeric(non_null)
        numeric_ratio == Mean([i \in 1..Len(non_null) |-> numeric_coerce[i] # None])
        datetime_coerce == to_datetime(non_null)
        datetime_ratio == Mean([i \in 1..Len(non_null) |-> datetime_coerce[i] # None])
        d2 == Put(Put(EmptyDict, "numeric_ratio", numeric_ratio),
                  "datetime_ratio", datetime_ratio)
        lowered == str_lower(astype_str([dtype |-> series.dtype, values |-> non_null]))
        bool_ratio == Mean([i \in 1..Len(lowered) |-> lowered[i] \in bool_set])
        d3 == Put(d2, "boolean_ratio", bool_ratio)
    IN  IF is_bool_dtype(series) THEN [type |-> "boolean", diagnostics |-> EmptyDict]
        ELSE IF is_numeric_dtype(series) THEN [type |-> "numeric", diagnostics |-> EmptyDict]
        ELSE IF non_null = <<>> THEN [type |-> "string", diagnostics |-> EmptyDict]
        ELSE IF FloatGeq(datetime_ratio, Threshold) THEN [type |-> "datetime", diagnostics |-> d2]
        ELSE IF FloatGeq(numeric_ratio, Threshold) THEN [type |-> "numeric", diagnostics |-> d2]
        ELSE IF FloatGeq(bool_ratio, Threshold) THEN [type |-> "boolean", diagnostics |-> d3]
        ELSE [type |-> "string", diagnostics |-> d3]

\* One column's entry of detect_schema_violations (the body of its loop).
ViolationOf(series, col_type) ==
    LET values == series.values
        n == Len(values)
        num == to_numeric(values)
        dat == to_datetime(values)
        invalid_num == [i \in 1..n |->
            notna(values[i]) /\ num[i] = None]
        invalid_dat == [i \in 1..n |->
            notna(values[i]) /\ dat[i] = None]
        lowered == str_lower(astype_str([dtype |-> series.dtype, values |-> dropna(values)]))
        invalid_count == Count([i \in 1..Len(lowered) |-> lowered[i] \notin bool_set])
    IN  CASE col_type = "numeric" ->
               [invalid_count |-> Count(invalid_num), invalid_percent |-> Mean(invalid_num)]
          [] col_type = "datetime" ->
               [invalid_count |-> Count(invalid_dat), invalid_percent |-> Mean(invalid_dat)]
          [] col_type = "boolean" ->
               [invalid_count |-> invalid_count,
                invalid_percent |-> Float(invalid_count, Max(n, 1))]
          [] OTHER ->
               [invalid_count |-> 0, invalid_percent |-> Zero]

\* inferred_schema: a dict from column name to label.
detect_schema_violations(df, inferred_schema) ==
    [name \in DOMAIN inferred_schema |-> ViolationOf(col(df, name), inferred_schema[name])]

-----------------------------------------------------------------------------
(* profile_dataframe *)

RECURSIVE Unique(_)
\* The distinct elements in order of first occurrence.
Unique(s) ==
    IF s = <<>> THEN <<>>
    ELSE LET init == Unique(SubSeq(s, 1, Len(s) - 1))
             last == s[Len(s)]
         IN  IF \E i \in 1..Len(init) : init[i] = last THEN init ELSE Append(init, last)

SampleSize == 5

_safe_sample(values) ==
    LET unique == Unique(dropna(values))
    IN  SubSeq(unique, 1, IF Len(unique) < SampleSize THEN Len(unique) ELSE SampleSize)

RECURSIVE Sum(_)
Sum(nums) == IF nums = <<>> THEN 0 ELSE Head(nums) + Sum(Tail(nums))

Leq(a, b) == a <= b

\* The non-missing numbers of a coerced Series.
Numbers(coerced) ==
    LET present == SelectSeq(coerced, LAMBDA o : o # None)
    IN  [i \in 1..Len(present) |-> present[i][1]]

\* 4 * quantile(k/4) of a sorted sequence, by linear interpolation.
Quantile4(sorted, k) ==
    LET pos == k * (Len(sorted) - 1)
        lo == pos \div 4
        r == pos % 4
    IN  IF r = 0 THEN 4 * sorted[lo + 1]
        ELSE 4 * sorted[lo + 1] + r * (sorted[lo + 2] - sorted[lo + 1])

\* series: the non-missing numbers.  Bounds are compared scaled by 8.
_iqr_outliers(series) ==
    LET sorted == SortSeq(series, Leq)
        q1 == Quantile4(sorted, 1)
        q3 == Quantile4(sorted, 3)
        iqr == q3 - q1
        lower == 2 * q1 - 3 * iqr
        upper == 2 * q3 + 3 * iqr
    IN  IF series = <<>> THEN 0
        ELSE IF iqr = 0 THEN 0
        ELSE Count([i \in 1..Len(series) |->
                        8 * series[i] < lower \/ 8 * series[i] > upper])

Least(nums) == CHOOSE x \in {nums[i] : i \in 1..Len(nums)} :
                   \A i \in 1..Len(nums) : x <= nums[i]
Greatest(nums) == CHOOSE x \in {nums[i] : i \in 1..Len(nums)} :
                      \A i \in 1..Len(nums) : x >= nums[i]

\* np.nanstd is the square root of the population variance; the model keeps the
\* variance, which determines it.
numeric_summary_of(nums) ==
    LET n == Len(nums)
        any == n > 0
        squares == [i \in 1..n |-> nums[i] * nums[i]]
    IN  [min |-> IF any THEN Some(Float(Least(nums), 1)) ELSE None,
         max |-> IF any THEN Some(Float(Greatest(nums), 1)) ELSE None,
         mean |-> IF any THEN Some(Float(Sum(nums), n)) ELSE None,
         std |-> IF any THEN Some(Float(n * Sum(squares) - Sum(nums) * Sum(nums), n * n))
                 ELSE None]

ColumnProfile(series) ==
    LET missing_count == Count([i \in 1..Len(series.values) |-> isna(series.values[i])])
        nums == Numbers(to_numeric(series.values))
        numeric == is_numeric_dtype(series)
    IN  [name |-> series.name,
         dtype |-> series.dtype,
         missing_count |-> missing_count,
         missing_percent |-> Float(missing_count, Max(Len(series.values), 1)),
         unique_count |-> Len(Unique(dropna(series.values))),
         sample_values |-> _safe_sample(series.values),
         numeric_summary |-> IF numeric THEN numeric_summary_of(nums) ELSE EmptyDict,
         outlier_count |-> IF numeric THEN _iqr_outliers(nums) ELSE 0]

profile_dataframe(df) ==
    [row_count |-> len(df),
     column_count |-> Len(df),
     columns |-> [i \in 1..Len(df) |-> ColumnProfile(df[i])]]

-----------------------------------------------------------------------------
(* detect_drift *)

Occurrences(strs, v) == Count([i \in 1..Len(strs) |-> strs[i] = v])

\* strs.value_counts(dropna=True).head(1): None when nothing is counted, else the
\* most frequent value with its count (among equally frequent values, the one
\* seen first).
value_counts_head(strs) ==
    LET present == dropna(strs)
        unique == Unique(present)
        best == CHOOSE i \in 1..Len(unique) :
                    /\ \A j \in 1..Len(unique) :
                           Occurrences(present, unique[j]) <= Occurrences(present, unique[i])
                    /\ \A j \in 1..(i - 1) :
                           Occurrences(present, unique[j]) < Occurrences(present, unique[i])
    IN  IF unique = <<>> THEN None
        ELSE Some([index |-> unique[best], count |-> Occurrences(present, unique[best])])

NumericDrift(cur, base) ==
    LET cur_num == Numbers(to_numeric(cur.values))
        base_num == Numbers(to_numeric(base.values))
        cur_s == numeric_summary_of(cur_num)
        base_s == numeric_summary_of(base_num)
    IN  [current_mean |-> cur_s.mean,
         baseline_mean |-> base_s.mean,
         current_std |-> cur_s.std,
         baseline_std |-> base_s.std,
         mean_delta |-> IF cur_s.mean = None \/ base_s.mean = None THEN None
                        ELSE Some(FloatSub(cur_s.mean[1], base_s.mean[1]))]

CategoricalDrift(cur, base) ==
    LET cur_top == value_counts_head(astype_str(cur))
        base_top == value_counts_head(astype_str(base))
    IN  [current_top |-> IF cur_top # None THEN Some(cur_top[1].index) ELSE None,
         current_top_freq |-> IF cur_top # None THEN Some(Float(cur_top[1].count, 1)) ELSE None,
         baseline_top |-> IF base_top # None THEN Some(base_top[1].index) ELSE None,
         baseline_top_freq |-> IF base_top # None THEN Some(Float(base_top[1].count, 1)) ELSE None]

NoSharedNote == "No shared columns between current and baseline datasets."

shared_cols(current, baseline) ==
    SelectSeq(columns(current),
              LAMBDA c : \E j \in 1..Len(baseline) : baseline[j].name = c)

RECURSIVE DriftLoop(_, _, _, _)
DriftLoop(drift, cols, current, baseline) ==
    IF cols = <<>> THEN drift
    ELSE LET name == Head(cols)
             cur == col(current, name)
             base == col(baseline, name)
             next == IF is_numeric_dtype(cur) /\ is_numeric_dtype(base)
                     THEN [drift EXCEPT !.numeric = Put(@, name, NumericDrift(cur, base))]
                     ELSE [drift EXCEPT !.categorical = Put(@, name, CategoricalDrift(cur, base))]
         IN  DriftLoop(next, Tail(cols), current, baseline)

\* detect_drift appending the note whether or not a column is shared.
detect_drift_always_noting(current, baseline) ==
    LET shared == shared_cols(current, baseline)
        drift == DriftLoop([numeric |-> EmptyDict, categorical |-> EmptyDict, notes |-> <<>>],
                           shared, current, baseline)
    IN  [drift EXCEPT !.notes = Append(@, NoSharedNote)]

detect_drift(current, baseline) ==
    LET shared == shared_cols(current, baseline)
        drift == DriftLoop([numeric |-> EmptyDict, categorical |-> EmptyDict, notes |-> <<>>],
                           shared, current, baseline)
    IN  IF shared = <<>> THEN [drift EXCEPT !.notes = Append(@, NoSharedNote)]
        ELSE drift

-----------------------------------------------------------------------------
(* recommend_fixes, summarize_report *)

MissingText == "Consider imputing missing values (mean/median for numeric, mode for categorical)."
OutlierText == "Consider clipping, winsorization, or removing outliers."
SchemaText == "Consider casting values to the inferred type or cleaning invalid entries."

\* ColumnFixes with missing_pct > 0.05 instead of >= 0.05.
ColumnFixes_strict(c, schema) ==
    LET name == c.name
        missing_pct == c.missing_percent
        outliers == Get(c, "outlier_count", 0)
        violations == Get(schema, "violations", EmptyDict)
        schema_issue == Get(violations, name, None)
        missing ==
            IF FloatGt(missing_pct, Float(5, 100))
            THEN <<[column |-> name, issue |-> "missing_values",
                    recommendation |-> MissingText,
                    severity |-> IF FloatLt(missing_pct, Float(2, 10)) THEN "medium" ELSE "high"]>>
            ELSE <<>>
        outlier ==
            IF outliers > 0
            THEN <<[column |-> name, issue |-> "outliers",
                    recommendation |-> OutlierText, severity |-> "medium"]>>
            ELSE <<>>
        schema_rec ==
            IF schema_issue # None /\ Get(schema_issue, "invalid_count", 0) > 0
            THEN <<[column |-> name, issue |-> "schema_violations",
                    recommendation |-> SchemaText,
                    severity |-> IF FloatGt(Get(schema_issue, "invalid_percent", Zero), Float(1, 10))
                                 THEN "high" ELSE "medium"]>>
            ELSE <<>>
    IN  missing \o outlier \o schema_rec

\* ColumnFixes appending the outliers entry before the missing_values entry.
ColumnFixes_outliers_first(c, schema) ==
    LET name == c.name
        missing_pct == c.missing_percent
        outliers == Get(c, "outlier_count", 0)
        violations == Get(schema, "violations", EmptyDict)
        schema_issue == Get(violations, name, None)
        missing ==
            IF FloatGeq(missing_pct, Float(5, 100))
            THEN <<[column |-> name, issue |-> "missing_values",
                    recommendation |-> MissingText,
                    severity |-> IF FloatLt(missing_pct, Float(2, 10)) THEN "medium" ELSE "high"]>>
            ELSE <<>>
        outlier ==
            IF outliers > 0
            THEN <<[column |-> name, issue |-> "outliers",
                    recommendation |-> OutlierText, severity |-> "medium"]>>
            ELSE <<>>
        schema_rec ==
            IF schema_issue # None /\ Get(schema_issue, "invalid_count", 0) > 0
            THEN <<[column |-> name, issue |-> "schema_violations",
                    recommendation |-> SchemaText,
                    severity |-> IF FloatGt(Get(schema_issue, "invalid_percent", Zero), Float(1, 10))
                                 THEN "high" ELSE "medium"]>>
            ELSE <<>>
    IN  outlier \o missing \o schema_rec

\* The recommendations one profile column contributes (the body of the loop).
ColumnFixes(c, schema) ==
    LET name == c.name
        missing_pct == c.missing_percent
        outliers == Get(c, "outlier_count", 0)
        violations == Get(schema, "violations", EmptyDict)
        schema_issue == Get(violations, name, None)
        missing ==
            IF FloatGeq(missing_pct, Float(5, 100))
            THEN <<[column |-> name, issue |-> "missing_values",
                    recommendation |-> MissingText,
                    severity |-> IF FloatLt(missing_pct, Float(2, 10)) THEN "medium" ELSE "high"]>>
            ELSE <<>>
        outlier ==
            IF outliers > 0
            THEN <<[column |-> name, issue |-> "outliers",
                    recommendation |-> OutlierText, severity |-> "medium"]>>
            ELSE <<>>
        schema_rec ==
            IF schema_issue # None /\ Get(schema_issue, "invalid_count", 0) > 0
            THEN <<[column |-> name, issue |-> "schema_violations",
                    recommendation |-> SchemaText,
                    severity |-> IF FloatGt(Get(schema_issue, "invalid_percent", Zero), Float(1, 10))
                                 THEN "high" ELSE "medium"]>>
            ELSE <<>>
    IN  missing \o outlier \o schema_rec

RECURSIVE FixLoop(_, _)
FixLoop(cols, schema) ==
    IF cols = <<>> THEN <<>>
    ELSE ColumnFixes(Head(cols), schema) \o FixLoop(Tail(cols), schema)

recommend_fixes(profile, schema) ==
    FixLoop(Get(profile, "columns", <<>>), schema)

RECURSIVE SumInvalid(_, _)
SumInvalid(violations, names) ==
    IF names = {} THEN 0
    ELSE LET n == CHOOSE n \in names : TRUE
         IN  Get(violations[n], "invalid_count", 0) + SumInvalid(violations, names \ {n})

summarize_report(report) ==
    LET profile == Get(report, "profile", EmptyDict)
        schema == Get(report, "schema", EmptyDict)
        drift == Get(report, "drift", None)
        recs == Get(report, "recommendations", <<>>)
        violations == Get(schema, "violations", EmptyDict)
        base ==
            "Rows: " \o ToString(Get(profile, "row_count", 0))
            \o ", Columns: " \o ToString(Get(profile, "column_count", 0)) \o "."
            \o " Schema violations: " \o ToString(SumInvalid(violations, DOMAIN violations)) \o "."
            \o " Recommendations: " \o ToString(Len(recs)) \o "."
    IN  IF drift # None /\ (drift[1].numeric # EmptyDict \/ drift[1].categorical # EmptyDict)
        THEN base \o " Baseline drift comparison included."
        ELSE base

-----------------------------------------------------------------------------
(* backend/utils/csv_utils.py *)

\* An upload is [kind, table]: kind "empty" is zero bytes, "malformed" is bytes
\* the CSV tokenizer rejects, "csv" is a well-formed file whose table is a
\* sequence of [name, texts] (the header field and the fields below it).

NaTexts == {"", "NaN", "NA", "null"}
CsvBools == {"True", "TRUE", "true", "False", "FALSE", "false"}

CsvBoolValue(t) == IF t \in {"True", "TRUE", "true"} THEN "True" ELSE "False"

\* The dtype and the values pd.read_csv gives one column.
ReadColumn(c) ==
    LET texts == c.texts
        n == Len(texts)
        present == SelectSeq(texts, LAMBDA t : t \notin NaTexts)
        all_numeric == \A i \in 1..Len(present) : present[i] \in NumericTexts
        all_bool == \A i \in 1..Len(present) : present[i] \in CsvBools
        dtype == IF n = 0 THEN "object"
                 ELSE IF all_numeric THEN (IF Len(present) = n THEN "int64" ELSE "float64")
                 ELSE IF all_bool /\ Len(present) = n THEN "bool"
                 ELSE "object"
    IN  [name |-> c.name,
         dtype |-> dtype,
         values |-> [i \in 1..n |->
                        IF texts[i] \in NaTexts THEN NaN
                        ELSE IF all_bool THEN CsvBoolValue(texts[i])
                        ELSE texts[i]]]

\* read_csv_bytes: [ok |-> FALSE] stands for the exception pd.read_csv raises.
read_csv_bytes(content) ==
    IF content.kind = "csv"
    THEN [ok |-> TRUE, df |-> [i \in 1..Len(content.table) |-> ReadColumn(content.table[i])]]
    ELSE [ok |-> FALSE, df |-> <<>>]

-----------------------------------------------------------------------------
(* backend/pipeline/graph.py *)

\* PipelineState: [dataset, baseline, report]; baseline is None or Some(df).
\* Each node returns the update {"report": report}.

profile_node(state) ==
    LET profile == profile_dataframe(state.dataset)
        report == Get(state, "report", EmptyDict)
    IN  [report |-> Put(report, "profile", profile)]

schema_node(state) ==
    LET df == state.dataset
        inferred == [name \in {df[i].name : i \in 1..Len(df)} |->
                        infer_column_type(col(df, name)).type]
        violations == detect_schema_violations(df, inferred)
        report == Get(state, "report", EmptyDict)
    IN  [report |-> Put(report, "schema", [inferred |-> inferred, violations |-> violations])]

drift_node(state) ==
    LET report == Get(state, "report", EmptyDict)
        baseline == Get(state, "baseline", None)
    IN  IF baseline # None
        THEN [report |-> Put(report, "drift", Some(detect_drift(state.dataset, baseline[1])))]
        ELSE [report |-> Put(report, "drift", None)]

fix_node(state) ==
    LET report == Get(state, "report", EmptyDict)
        recommendations == recommend_fixes(Get(report, "profile", EmptyDict),
                                           Get(report, "schema", EmptyDict))
        with_recs == Put(report, "recommendations", recommendations)
    IN  [report |-> Put(with_recs, "summary", summarize_report(with_recs))]

END == "__end__"

\* build_graph: the entry point and the edges.
EntryPoint == "profile"

\* Edges with schema wired to fix, leaving drift out of the path.
EdgesSkippingDrift(node) ==
    CASE node = "profile" -> "schema"
      [] node = "schema" -> "fix"
      [] node = "drift" -> "fix"
      [] node = "fix" -> END

Edges(node) ==
    CASE node = "profile" -> "schema"
      [] node = "schema" -> "drift"
      [] node = "drift" -> "fix"
      [] node = "fix" -> END

-----------------------------------------------------------------------------
(* backend/main.py *)

\* The names bound in main.py's module namespace when analyze runs.
MainGlobals ==
    {"Optional", "FastAPI", "File", "HTTPException", "UploadFile", "CORSMiddleware",
     "JSONResponse", "load_dotenv", "build_graph", "read_csv_bytes",
     "generate_ai_insights", "app", "add_process_time_header",
     "global_exception_handler", "pipeline", "health", "root", "api_root", "analyze"}

Csv(table) == [kind |-> "csv", table |-> table]
EmptyBytes == [kind |-> "empty", table |-> <<>>]
MalformedBytes == [kind |-> "malformed", table |-> <<>>]

AgeFlagCsv ==
    Csv(<<[name |-> "age", texts |-> <<"25", "30", "bad", "40", "">>],
          [name |-> "flag", texts |-> <<"yes", "no", "yes", "maybe", "yes">>]>>)

CleanCsv ==
    Csv(<<[name |-> "age", texts |-> <<"25", "30", "30", "40", "1">>],
          [name |-> "flag", texts |-> <<"yes", "no", "yes", "no", "">>]>>)

HeaderOnlyCsv ==
    Csv(<<[name |-> "age", texts |-> <<>>], [name |-> "flag", texts |-> <<>>]>>)

CityCsv ==
    Csv(<<[name |-> "city", texts |-> <<"x", "y", "x">>]>>)

\* The files a client uploads in the model.
DatasetUploads == {AgeFlagCsv, CleanCsv, HeaderOnlyCsv, EmptyBytes, MalformedBytes}
BaselineUploads == {None, Some(CleanCsv), Some(CityCsv), Some(EmptyBytes), Some(MalformedBytes)}

\* What generate_ai_insights returns, by its "status".
InsightStatuses == {"disabled", "error", "ok"}

RequestIds == {"r1", "r2"}

NoResponse == [status_code |-> 0, detail |-> "", content |-> EmptyDict]

IdleRequest ==
    [pc |-> "idle",
     dataset_bytes |-> EmptyBytes,
     baseline_bytes |-> None,
     df |-> <<>>,
     baseline_df |-> None,
     state |-> [dataset |-> <<>>, baseline |-> None, report |-> EmptyDict],
     trace |-> <<>>,
     report |-> EmptyDict,
     response |-> NoResponse]

EnvUnchanged == UNCHANGED <<astype_str_keeps_na, bare_int_parses_as_date>>

\* main.py:73-80: the request arrives and its files are read.
Receive(r) ==
    /\ requests[r].pc = "idle"
    /\ \E dataset \in DatasetUploads, baseline \in BaselineUploads :
           requests' = [requests EXCEPT ![r] =
               [@ EXCEPT !.pc = "parse_dataset",
                         !.dataset_bytes = dataset,
                         !.baseline_bytes = baseline]]
    /\ EnvUnchanged /\ UNCHANGED call

\* main.py:82-87
ParseDataset(r) ==
    /\ requests[r].pc = "parse_dataset"
    /\ LET got == read_csv_bytes(requests[r].dataset_bytes)
       IN  requests' = [requests EXCEPT ![r] =
               IF got.ok
               THEN [@ EXCEPT !.pc = "parse_baseline", !.df = got.df]
               ELSE [@ EXCEPT !.pc = "responded",
                              !.response = [status_code |-> 400,
                                            detail |-> "Invalid dataset CSV",
                                            content |-> EmptyDict]]]
    /\ EnvUnchanged /\ UNCHANGED call

\* main.py:89-96: an absent or zero-length baseline is no baseline.
ParseBaseline(r) ==
    /\ requests[r].pc = "parse_baseline"
    /\ LET bytes == requests[r].baseline_bytes
           given == bytes # None /\ bytes[1].kind # "empty"
           got == IF given THEN read_csv_bytes(bytes[1]) ELSE [ok |-> TRUE, df |-> <<>>]
       IN  requests' = [requests EXCEPT ![r] =
               IF ~given THEN [@ EXCEPT !.pc = "invoke", !.baseline_df = None]
               ELSE IF got.ok THEN [@ EXCEPT !.pc = "invoke", !.baseline_df = Some(got.df)]
               ELSE [@ EXCEPT !.pc = "responded",
                              !.response = [status_code |-> 400,
                                            detail |-> "Invalid baseline CSV",
                                            content |-> EmptyDict]]]
    /\ EnvUnchanged /\ UNCHANGED call

\* main.py:100: pipeline.invoke starts on a fresh state at the entry point.
Invoke(r) ==
    /\ requests[r].pc = "invoke"
    /\ requests' = [requests EXCEPT ![r] =
           [@ EXCEPT !.pc = EntryPoint,
                     !.state = [dataset |-> requests[r].df,
                                baseline |-> requests[r].baseline_df,
                                report |-> EmptyDict]]]
    /\ EnvUnchanged /\ UNCHANGED call

\* NodeInput with one state shared by all invocations.
NodeInputOfFirstRequest(r) == requests["r1"].state

\* The state the compiled graph hands a node: that of its own invocation.
NodeInput(r) == requests[r].state

\* One node runs: its update is merged into the invocation's state and the edge
\* out of it is followed.
RunNode(r, node, update) ==
    /\ requests[r].pc = node
    /\ requests' = [requests EXCEPT ![r] =
           [@ EXCEPT !.pc = Edges(node),
                     !.state = update @@ NodeInput(r),
                     !.trace = Append(@, node)]]
    /\ EnvUnchanged /\ UNCHANGED call

ProfileStep(r) == RunNode(r, "profile", profile_node(NodeInput(r)))
SchemaStep(r) == RunNode(r, "schema", schema_node(NodeInput(r)))
DriftStep(r) == RunNode(r, "drift", drift_node(NodeInput(r)))
FixStep(r) == RunNode(r, "fix", fix_node(NodeInput(r)))

\* main.py:101-111: the report is taken from the result and the insights added.
Insights(r) ==
    /\ requests[r].pc = END
    /\ \E status \in InsightStatuses :
           requests' = [requests EXCEPT ![r] =
               [@ EXCEPT !.pc = "sample",
                         !.report = Put(requests[r].state.report, "ai_insights",
                                        [status |-> status])]]
    /\ EnvUnchanged /\ UNCHANGED call

HeadRows == 20

sample_rows(df) ==
    [i \in 1..(IF len(df) < HeadRows THEN len(df) ELSE HeadRows) |->
        [name \in {df[j].name : j \in 1..Len(df)} |->
            LET c == col(df, name).values[i] IN IF isna(c) THEN "None" ELSE c]]

\* main.py:113-120: line 115 evaluates np.nan; a name that is not bound raises
\* NameError, which global_exception_handler (main.py:40-52) answers with 500.
SampleAndRespond(r) ==
    /\ requests[r].pc = "sample"
    /\ LET with_columns == Put(requests[r].report, "sample_columns", columns(requests[r].df))
           full == Put(with_columns, "sample_rows", sample_rows(requests[r].df))
       IN  requests' = [requests EXCEPT ![r] =
               IF "np" \in MainGlobals
               THEN [@ EXCEPT !.pc = "responded",
                              !.report = full,
                              !.response = [status_code |-> 200, detail |-> "", content |-> full]]
               ELSE [@ EXCEPT !.pc = "responded",
                              !.report = with_columns,
                              !.response = [status_code |-> 500,
                                            detail |-> "name 'np' is not defined",
                                            content |-> EmptyDict]]]
    /\ EnvUnchanged /\ UNCHANGED call

NoCall == [pc |-> "none"]

Init ==
    /\ astype_str_keeps_na \in BOOLEAN
    /\ bare_int_parses_as_date \in BOOLEAN
    /\ requests = [r \in RequestIds |-> IdleRequest]
    /\ call = NoCall

Next ==
    \E r \in RequestIds :
        \/ Receive(r)
        \/ ParseDataset(r)
        \/ ParseBaseline(r)
        \/ Invoke(r)
        \/ ProfileStep(r)
        \/ SchemaStep(r)
        \/ DriftStep(r)
        \/ FixStep(r)
        \/ Insights(r)
        \/ SampleAndRespond(r)

\* Requests are handled independently; any interleaving of their steps is allowed
\* (the server interleaves at most at the awaits of main.py:79-80).
Spec == Init /\ [][Next]_vars

-----------------------------------------------------------------------------
(* Claims about the pipeline and the endpoint (specification Spec) *)

StageOrder == <<"profile", "schema", "drift", "fix">>

StageKeys(node) ==
    CASE node = "profile" -> {"profile"}
      [] node = "schema" -> {"schema"}
      [] node = "drift" -> {"drift"}
      [] node = "fix" -> {"recommendations", "summary"}

PipelineKeys == {"profile", "schema", "drift", "recommendations", "summary"}

\* The pipeline of request r has run to its end.
PipelineDone(r) == Len(requests[r].trace) > 0 /\ requests[r].pc \in {END, "sample", "responded"}

C1_Order ==
    \A r \in RequestIds :
        LET q == requests[r]
        IN  /\ Len(q.trace) <= Len(StageOrder)
            /\ q.trace = SubSeq(StageOrder, 1, Len(q.trace))
            /\ q.pc \in {"profile", "schema", "drift", "fix"} =>
                   /\ Len(q.trace) < Len(StageOrder)
                   /\ q.pc = StageOrder[Len(q.trace) + 1]
            /\ q.pc \in {END, "sample"} => q.trace = StageOrder
            /\ DOMAIN q.state.report =
                   UNION {StageKeys(q.trace[i]) : i \in 1..Len(q.trace)}

C1_Stable ==
    \A r \in RequestIds :
        \A k \in DOMAIN requests[r].state.report :
            /\ k \in DOMAIN requests'[r].state.report
            /\ requests'[r].state.report[k] = requests[r].state.report[k]

\* C1: in every run the four stages execute exactly once each, in the order
\* profile, schema, drift, fix, and the run then ends; each stage writes its own
\* key(s) of the report, and no later stage changes a value already written.
C1_LinearPipeline == []C1_Order /\ [][C1_Stable]_vars

C1_Witness ==
    \E r \in RequestIds :
        /\ requests[r].pc = END
        /\ requests[r].trace = StageOrder
        /\ requests[r].baseline_df # None
        /\ DOMAIN requests[r].state.report = PipelineKeys

HasRecommendation(recs, column, issue) ==
    \E i \in 1..Len(recs) : recs[i].column = column /\ recs[i].issue = issue

AgeFlagDone(r) == PipelineDone(r) /\ requests[r].dataset_bytes = AgeFlagCsv

ProfileOf(report, name) ==
    report.profile.columns[CHOOSE i \in 1..Len(report.profile.columns) :
                               report.profile.columns[i].name = name]

\* C2 as stated: for age=[25,30,"bad",40,null], flag=["yes","no","yes","maybe","yes"]
\* age is inferred numeric with invalid_count 1 and missing_count 1, flag is
\* inferred string (boolean_ratio 0.8) with invalid_count 0, and a missing_values
\* recommendation is made for age.
C2_AsStated ==
    \A r \in RequestIds :
        AgeFlagDone(r) =>
            LET report == requests[r].state.report
                flag == infer_column_type(col(requests[r].df, "flag"))
            IN  /\ report.schema.inferred["age"] = "numeric"
                /\ report.schema.violations["age"].invalid_count = 1
                /\ ProfileOf(report, "age").missing_count = 1
                /\ report.schema.inferred["flag"] = "string"
                /\ FloatEq(flag.diagnostics["boolean_ratio"], Float(8, 10))
                /\ report.schema.violations["flag"].invalid_count = 0
                /\ HasRecommendation(report.recommendations, "age", "missing_values")

\* C2 amended: for that dataset age is inferred string (its numeric_ratio is
\* 0.75 < 0.9) with invalid_count 0 and missing_count 1, flag is inferred string
\* (boolean_ratio 0.8 < 0.9) with invalid_count 0, and a missing_values
\* recommendation is made for age.
C2_AgeFlagReport ==
    \A r \in RequestIds :
        AgeFlagDone(r) =>
            LET report == requests[r].state.report
                age == infer_column_type(col(requests[r].df, "age"))
                flag == infer_column_type(col(requests[r].df, "flag"))
            IN  /\ report.schema.inferred["age"] = "string"
                /\ FloatEq(age.diagnostics["numeric_ratio"], Float(3, 4))
                /\ report.schema.violations["age"].invalid_count = 0
                /\ ProfileOf(report, "age").missing_count = 1
                /\ report.schema.inferred["flag"] = "string"
                /\ FloatEq(flag.diagnostics["boolean_ratio"], Float(8, 10))
                /\ report.schema.violations["flag"].invalid_count = 0
                /\ HasRecommendation(report.recommendations, "age", "missing_values")

C2_Witness ==
    \E r \in RequestIds :
        /\ AgeFlagDone(r)
        /\ Len(requests[r].state.report.recommendations) > 0

SameInputs(r, q) ==
    /\ requests[r].dataset_bytes = requests[q].dataset_bytes
    /\ requests[r].baseline_df = requests[q].baseline_df

Started(r) == requests[r].pc \in {"profile", "schema", "drift", "fix"} \/ PipelineDone(r)

\* C7: two invocations on the same dataset/baseline pair, however their steps
\* interleave, end with identical reports, and no invocation changes its dataset
\* or its baseline.
C7_Isolation ==
    /\ \A r \in RequestIds :
           Started(r) =>
               /\ requests[r].state.dataset = read_csv_bytes(requests[r].dataset_bytes).df
               /\ requests[r].df = requests[r].state.dataset
               /\ requests[r].state.baseline = requests[r].baseline_df
               /\ requests[r].baseline_df # None =>
                      requests[r].baseline_df[1] =
                          read_csv_bytes(requests[r].baseline_bytes[1]).df
    /\ \A r, q \in RequestIds :
           PipelineDone(r) /\ PipelineDone(q) /\ SameInputs(r, q) =>
               requests[r].state.report = requests[q].state.report

C7_Witness ==
    /\ PipelineDone("r1") /\ PipelineDone("r2")
    /\ SameInputs("r1", "r2")
    /\ requests["r1"].baseline_df # None
    /\ DOMAIN requests["r2"].state.report = PipelineKeys

\* C8: every request ends either with a response carrying the full report or
\* with a 400 raised before the pipeline is invoked.
C8_TwoOutcomes ==
    \A r \in RequestIds :
        requests[r].pc = "responded" =>
            \/ /\ requests[r].response.status_code = 200
               /\ PipelineKeys \subseteq DOMAIN requests[r].response.content
            \/ /\ requests[r].response.status_code = 400
               /\ requests[r].trace = <<>>

-----------------------------------------------------------------------------
(* Direct calls of the analysis functions *)

Rep(c, n) == [i \in 1..n |-> c]

\* The sequences of at most maxlen cells made of a run of one cell followed by a
\* run of another.
Runs(cells, maxlen) ==
    {Rep(a, p[1]) \o Rep(b, p[2]) :
        a \in cells, b \in cells,
        p \in {q \in (0..maxlen) \X (0..maxlen) : q[1] + q[2] <= maxlen}}

MaxRows == 10

ObjectCells == {NaN, "25", "bad", "yes", "2020-01-01", "20200101"}

\* The Series infer_column_type is called on: object Series of str and missing
\* cells, and Series of dtype int64, float64 and bool (zero rows included).
SchemaSeries ==
    {[name |-> "c", dtype |-> "object", values |-> v] : v \in Runs(ObjectCells, MaxRows)}
    \cup {[name |-> "c", dtype |-> "int64", values |-> v] : v \in Runs({"25", "1"}, MaxRows)}
    \cup {[name |-> "c", dtype |-> "float64", values |-> v] : v \in Runs({"25", NaN}, MaxRows)}
    \cup {[name |-> "c", dtype |-> "bool", values |-> v] : v \in Runs(BoolValues, MaxRows)}

EnvInit ==
    /\ astype_str_keeps_na \in BOOLEAN
    /\ bare_int_parses_as_date \in BOOLEAN

InitSchema ==
    /\ EnvInit
    /\ requests = [r \in RequestIds |-> IdleRequest]
    /\ \E series \in SchemaSeries :
           call = [pc |-> "start",
                   df |-> <<series>>,
                   inferred |-> [type |-> "", diagnostics |-> EmptyDict],
                   violations |-> EmptyDict]

\* graph.py:43: the column's type is inferred.
CallInfer ==
    /\ call.pc = "start"
    /\ call' = [call EXCEPT !.pc = "inferred",
                            !.inferred = infer_column_type(call.df[1])]
    /\ EnvUnchanged /\ UNCHANGED requests

\* graph.py:44: the violations are detected under the inferred schema.
CallViolations ==
    /\ call.pc = "inferred"
    /\ call' = [call EXCEPT !.pc = "done",
                            !.violations =
                                detect_schema_violations(call.df,
                                    [name \in {call.df[1].name} |-> call.inferred.type])]
    /\ EnvUnchanged /\ UNCHANGED requests

NextSchema == CallInfer \/ CallViolations

SpecSchema == InitSchema /\ [][NextSchema]_vars

\* k / n >= 0.9, for n > 0
AtLeastNineTenths(k, n) == 10 * k >= 9 * n

NumericCount(values) == Cardinality({i \in 1..Len(values) : values[i] \in NumericTexts})
DatetimeCount(values) ==
    LET coerced == to_datetime(values)
    IN  Cardinality({i \in 1..Len(values) : coerced[i] # None})
BooleanCount(values) ==
    Cardinality({i \in 1..Len(values) : Lower(values[i]) \in bool_set})

\* The label the decision list of the claim gives a Series.
C9_Label(series) ==
    LET non_missing == dropna(series.values)
        n == Len(non_missing)
    IN  IF series.dtype = "bool" THEN "boolean"
        ELSE IF series.dtype \in {"int64", "float64"} THEN "numeric"
        ELSE IF n = 0 THEN "string"
        ELSE IF AtLeastNineTenths(DatetimeCount(non_missing), n) THEN "datetime"
        ELSE IF AtLeastNineTenths(NumericCount(non_missing), n) THEN "numeric"
        ELSE IF AtLeastNineTenths(BooleanCount(non_missing), n) THEN "boolean"
        ELSE "string"

\* C9: infer_column_type returns one of numeric, boolean, datetime, string, chosen
\* by first match: boolean dtype, numeric dtype, no non-missing value (string),
\* datetime_ratio >= 0.9, numeric_ratio >= 0.9, boolean_ratio >= 0.9, else string;
\* a column with both datetime_ratio and numeric_ratio >= 0.9 is datetime, and a
\* ratio below 0.9 never selects its label.
C9_DecisionOrder ==
    call.pc \in {"inferred", "done"} =>
        LET series == call.df[1]
            label == call.inferred.type
            non_missing == dropna(series.values)
            n == Len(non_missing)
        IN  /\ label \in {"numeric", "boolean", "datetime", "string"}
            /\ label = C9_Label(series)
            /\ series.dtype = "object" /\ n > 0 =>
                   /\ AtLeastNineTenths(DatetimeCount(non_missing), n) => label = "datetime"
                   /\ label = "datetime" => AtLeastNineTenths(DatetimeCount(non_missing), n)
                   /\ label = "numeric" => AtLeastNineTenths(NumericCount(non_missing), n)
                   /\ label = "boolean" => AtLeastNineTenths(BooleanCount(non_missing), n)

\* Both ratios reach 0.9, the datetime one exactly, and the label is datetime.
C9_Witness ==
    /\ call.pc = "inferred"
    /\ call.df[1].dtype = "object"
    /\ LET non_missing == dropna(call.df[1].values)
       IN  /\ Len(non_missing) = 10
           /\ DatetimeCount(non_missing) = 9
           /\ NumericCount(non_missing) >= 9
    /\ call.inferred.type = "datetime"

\* C4: for every dataset, zero rows included, and every column whatever its
\* inferred type, invalid_percent is the number invalid_count / max(row_count, 1):
\* never NaN, and 0 when there are no rows.
C4_PercentDefined ==
    call.pc = "done" =>
        \A name \in DOMAIN call.violations :
            LET v == call.violations[name]
                row_count == len(call.df)
            IN  /\ ~v.invalid_percent.nan
                /\ v.invalid_percent.num * Max(row_count, 1)
                       = v.invalid_count * v.invalid_percent.den
                /\ row_count = 0 => v.invalid_percent.num = 0

-----------------------------------------------------------------------------
(* detect_drift called on two DataFrames *)

MaxDriftRows == 2

DriftTexts == {"", "1", "x"}

\* The texts of one column of n rows: any texts, or n times the same text.
ColumnTexts(kind, n) ==
    IF kind = "any" THEN [1..n -> DriftTexts] ELSE {Rep(t, n) : t \in DriftTexts}

\* The DataFrames pd.read_csv gives for the files with these headers and at most
\* MaxDriftRows rows.
Frames(headers) ==
    UNION {
        {[i \in 1..Len(h) |-> ReadColumn([name |-> h[i].name, texts |-> t[i]])] :
            t \in {u \in [1..Len(h) -> UNION {ColumnTexts(k, n) : k \in {"any", "same"}}] :
                      \A i \in 1..Len(h) : u[i] \in ColumnTexts(h[i].kind, n)}} :
        h \in headers, n \in 0..MaxDriftRows}

Header(name, kind) == [name |-> name, kind |-> kind]

CurrentFrames ==
    Frames({<<Header("a", "any")>>, <<Header("a", "any"), Header("b", "same")>>})
BaselineFrames ==
    Frames({<<Header("a", "any")>>, <<Header("b", "same"), Header("a", "any")>>,
            <<Header("c", "any")>>})

EmptyDrift == [numeric |-> EmptyDict, categorical |-> EmptyDict, notes |-> <<>>]

\* detect_drift never calls pd.to_datetime.
InitDrift ==
    /\ astype_str_keeps_na \in BOOLEAN
    /\ bare_int_parses_as_date = FALSE
    /\ requests = [r \in RequestIds |-> IdleRequest]
    /\ \E current \in CurrentFrames, baseline \in BaselineFrames :
           call = [pc |-> "start", current |-> current, baseline |-> baseline,
                   drift |-> EmptyDrift]

\* graph.py:54
CallDrift ==
    /\ call.pc = "start"
    /\ call' = [call EXCEPT !.pc = "done",
                            !.drift = detect_drift(call.current, call.baseline)]
    /\ EnvUnchanged /\ UNCHANGED requests

NextDrift == CallDrift

SpecDrift == InitDrift /\ [][NextDrift]_vars

Names(df) == {df[i].name : i \in 1..Len(df)}

\* The str() of the non-missing cells of a Series.
NonMissingStrs(series) ==
    astype_str([dtype |-> series.dtype, values |-> dropna(series.values)])

\* top/freq are null when the side has no non-missing cell; otherwise top is a
\* most frequent str() among the non-missing cells and freq counts those cells.
C5_SideOk(series, top, freq) ==
    LET strs == NonMissingStrs(series)
    IN  IF strs = <<>> THEN top = None /\ freq = None
        ELSE /\ top # None /\ freq # None
             /\ \E i \in 1..Len(strs) : strs[i] = top[1]
             /\ \A i \in 1..Len(strs) : Occurrences(strs, strs[i]) <= Occurrences(strs, top[1])
             /\ FloatEq(freq[1], Float(Occurrences(strs, top[1]), 1))

\* C5: in every categorical drift record missing cells never contribute: each
\* side's top is the most frequent stringified value among its non-missing cells,
\* its top_freq counts only those cells, and both are null when the side has no
\* non-missing value.
C5_MissingNeverCounts ==
    call.pc = "done" =>
        \A name \in DOMAIN call.drift.categorical :
            LET rec == call.drift.categorical[name]
            IN  /\ C5_SideOk(col(call.current, name), rec.current_top, rec.current_top_freq)
                /\ C5_SideOk(col(call.baseline, name), rec.baseline_top, rec.baseline_top_freq)

\* C6: each column present in both datasets is in exactly one of the numeric and
\* categorical maps, numeric exactly when it is numeric-typed on both sides; no
\* other column is in either map; notes is non-empty exactly when no column is
\* shared, and then both maps are empty.
C6_OneMapPerSharedColumn ==
    call.pc = "done" =>
        LET shared == Names(call.current) \cap Names(call.baseline)
            numeric == DOMAIN call.drift.numeric
            categorical == DOMAIN call.drift.categorical
            NumericTyped(series) == series.dtype \in {"bool", "int64", "float64"}
        IN  /\ numeric \cup categorical = shared
            /\ numeric \cap categorical = {}
            /\ \A name \in shared :
                   name \in numeric <=>
                       /\ NumericTyped(col(call.current, name))
                       /\ NumericTyped(col(call.baseline, name))
            /\ call.drift.notes # <<>> <=> shared = {}
            /\ shared = {} => numeric = {} /\ categorical = {}

C6_Witness ==
    /\ call.pc = "done"
    /\ DOMAIN call.drift.numeric # {}
    /\ DOMAIN call.drift.categorical # {}
    /\ call.drift.notes = <<>>

-----------------------------------------------------------------------------
(* recommend_fixes called on a profile and a schema section *)

MaxOutliers == 1
MaxInvalid == 1

\* missing_percent values on both sides of 0.05 and of 0.2
MissingPercents ==
    {Float(0, 100), Float(4, 100), Float(5, 100), Float(6, 100),
     Float(19, 100), Float(20, 100), Float(25, 100)}

InvalidPercents == {Float(1, 10), Float(2, 10)}

ProfileColumns(name) ==
    {[name |-> name, missing_percent |-> m, outlier_count |-> o] :
        m \in MissingPercents, o \in 0..MaxOutliers}

\* None: the violations dict has no entry for the column.
ViolationEntries ==
    {None} \cup {Some([invalid_count |-> k, invalid_percent |-> p]) :
                    k \in 0..MaxInvalid, p \in InvalidPercents}

ViolationsDict(names, entries) ==
    [name \in {names[i] : i \in {j \in 1..Len(names) : entries[j] # None}} |->
        entries[CHOOSE i \in 1..Len(names) : names[i] = name][1]]

FixNames == {<<"a">>, <<"b", "a">>}

InitFix ==
    /\ astype_str_keeps_na = FALSE
    /\ bare_int_parses_as_date = FALSE
    /\ requests = [r \in RequestIds |-> IdleRequest]
    /\ \E names \in FixNames :
       \E cols \in [1..Len(names) -> UNION {ProfileColumns(n) : n \in {"a", "b"}}] :
       \E entries \in [1..Len(names) -> ViolationEntries] :
           /\ \A i \in 1..Len(names) : cols[i].name = names[i]
           /\ call = [pc |-> "start",
                      profile |-> [row_count |-> 100, column_count |-> Len(names),
                                   columns |-> cols],
                      schema |-> [violations |-> ViolationsDict(names, entries)],
                      recommendations |-> <<>>]

\* graph.py:62
CallFix ==
    /\ call.pc = "start"
    /\ call' = [call EXCEPT !.pc = "done",
                            !.recommendations = recommend_fixes(call.profile, call.schema)]
    /\ EnvUnchanged /\ UNCHANGED requests

NextFix == CallFix

SpecFix == InitFix /\ [][NextFix]_vars

\* The positions in recs of the recommendations for this column and issue.
RecsFor(recs, column, issue) ==
    {i \in 1..Len(recs) : recs[i].column = column /\ recs[i].issue = issue}

\* C3: a missing_values recommendation is made for a column iff its
\* missing_percent >= 0.05, with severity high when missing_percent >= 0.2 and
\* medium otherwise: none at 0.04, one of severity medium at 0.06, one of
\* severity high at 0.25.
C3_MissingValuesRule ==
    call.pc = "done" =>
        \A i \in 1..Len(call.profile.columns) :
            LET c == call.profile.columns[i]
                m == c.missing_percent
                at == RecsFor(call.recommendations, c.name, "missing_values")
                Severity(s) == \A k \in at : call.recommendations[k].severity = s
            IN  /\ 20 * m.num >= m.den => Cardinality(at) = 1
                /\ 20 * m.num < m.den => at = {}
                /\ 5 * m.num >= m.den => Severity("high")
                /\ 5 * m.num < m.den => Severity("medium")
                /\ m = Float(4, 100) => at = {}
                /\ m = Float(6, 100) => Cardinality(at) = 1 /\ Severity("medium")
                /\ m = Float(25, 100) => Cardinality(at) = 1 /\ Severity("high")

C3_Witness ==
    /\ call.pc = "done"
    /\ Len(call.profile.columns) = 2
    /\ call.profile.columns[1].missing_percent = Float(6, 100)
    /\ call.profile.columns[2].missing_percent = Float(25, 100)
    /\ \E i, j \in 1..Len(call.recommendations) :
           /\ call.recommendations[i].issue = "missing_values"
           /\ call.recommendations[i].severity = "medium"
           /\ call.recommendations[j].issue = "missing_values"
           /\ call.recommendations[j].severity = "high"

IssueRank(issue) ==
    CASE issue = "missing_values" -> 1
      [] issue = "outliers" -> 2
      [] issue = "schema_violations" -> 3

ColumnPosition(profile, name) ==
    CHOOSE i \in 1..Len(profile.columns) : profile.columns[i].name = name

\* C10: the list is ordered by the profile's column order and, within a column,
\* missing_values, outliers, schema_violations; a column contributes each issue at
\* most once; outliers appears iff outlier_count > 0 and schema_violations iff the
\* column's invalid_count > 0.
C10_OrderAndRules ==
    call.pc = "done" =>
        LET recs == call.recommendations
            violations == call.schema.violations
        IN  /\ \A i, j \in 1..Len(recs) :
                   i < j =>
                       \/ ColumnPosition(call.profile, recs[i].column)
                              < ColumnPosition(call.profile, recs[j].column)
                       \/ /\ recs[i].column = recs[j].column
                          /\ IssueRank(recs[i].issue) < IssueRank(recs[j].issue)
            /\ \A i \in 1..Len(recs) :
                   /\ recs[i].issue \in {"missing_values", "outliers", "schema_violations"}
                   /\ \E k \in 1..Len(call.profile.columns) :
                          call.profile.columns[k].name = recs[i].column
            /\ \A k \in 1..Len(call.profile.columns) :
                   LET c == call.profile.columns[k]
                   IN  /\ RecsFor(recs, c.name, "outliers") # {} <=> c.outlier_count > 0
                       /\ RecsFor(recs, c.name, "schema_violations") # {} <=>
                              /\ c.name \in DOMAIN violations
                              /\ violations[c.name].invalid_count > 0
                       /\ RecsFor(recs, c.name, "missing_values") # {} <=>
                              20 * c.missing_percent.num >= c.missing_percent.den

\* Both columns contribute all three issues.
C10_Witness ==
    /\ call.pc = "done"
    /\ Len(call.profile.columns) = 2
    /\ Len(call.recommendations) = 6

-----------------------------------------------------------------------------
(* The compiled pipeline invoked on a dataset read from a CSV file *)

MaxMissing == 1

CsvTexts == {"25", "bad", "yes", "true", "2020-01-01", "20200101"}

\* One-column files: a run of one text, a run of another, then empty fields.
\* Numeric columns holding 20200101 are left out: the sums of squares of their
\* numeric_summary exceed the integers of the model checker.
PipelineDatasets ==
    {df \in {<<ReadColumn([name |-> "c", texts |-> t \o Rep("", k)])>> :
                t \in Runs(CsvTexts, MaxRows), k \in 0..MaxMissing} :
        ~(is_numeric_dtype(df[1]) /\ \E i \in 1..Len(df[1].values) :
                                         df[1].values[i] = "20200101")}

\* No baseline is given, and infer_column_type and detect_schema_violations
\* stringify non-missing cells only: Series.astype(str) never meets a missing cell.
InitPipeline ==
    /\ astype_str_keeps_na = FALSE
    /\ bare_int_parses_as_date \in BOOLEAN
    /\ requests = [r \in RequestIds |-> IdleRequest]
    /\ \E dataset \in PipelineDatasets :
           call = [pc |-> EntryPoint,
                   state |-> [dataset |-> dataset, baseline |-> None, report |-> EmptyDict]]

\* One node of the invocation runs, as in RunNode.
CallNode(node, update) ==
    /\ call.pc = node
    /\ call' = [call EXCEPT !.pc = Edges(node), !.state = update @@ call.state]
    /\ EnvUnchanged /\ UNCHANGED requests

CallProfileNode == CallNode("profile", profile_node(call.state))
CallSchemaNode == CallNode("schema", schema_node(call.state))
CallDriftNode == CallNode("drift", drift_node(call.state))
CallFixNode == CallNode("fix", fix_node(call.state))

NextPipeline == CallProfileNode \/ CallSchemaNode \/ CallDriftNode \/ CallFixNode

SpecPipeline == InitPipeline /\ [][NextPipeline]_vars

\* C11: in every report of the full pipeline every column has invalid_count at
\* most 10% of its non-missing values, hence invalid_percent <= 0.1, and every
\* schema_violations recommendation has severity medium (the high branch is
\* never taken).
C11_ViolationsAtMostTenth ==
    call.pc = END =>
        LET report == call.state.report
            df == call.state.dataset
        IN  /\ \A name \in DOMAIN report.schema.violations :
                   LET v == report.schema.violations[name]
                       non_missing == Len(dropna(col(df, name).values))
                   IN  /\ 10 * v.invalid_count <= non_missing
                       /\ ~v.invalid_percent.nan
                       /\ 10 * v.invalid_percent.num <= v.invalid_percent.den
            /\ \A i \in 1..Len(report.recommendations) :
                   report.recommendations[i].issue = "schema_violations" =>
                       report.recommendations[i].severity = "medium"

\* A column with a missing cell whose one invalid value is a tenth of its
\* non-missing values, and the recommendation made for it.
C11_Witness ==
    /\ call.pc = END
    /\ call.state.report.schema.violations["c"].invalid_count = 1
    /\ call.state.report.profile.columns[1].missing_count = 1
    /\ \E i \in 1..Len(call.state.report.recommendations) :
           /\ call.state.report.recommendations[i].issue = "schema_violations"
           /\ call.state.report.recommendations[i].severity = "medium"

====
